---- MODULE Spec2Model ----
(***************************************************************************)
(* A model of two flows of the community platform:                         *)
(*   - the message send handler (action, validateRequest,                  *)
(*     getTenantSettings), with the messages table, the clock and the      *)
(*     outbound email provider as its environment;                         *)
(*   - the research update form (ResearchUpdateForm, getResearchUpdates).  *)
(* Each await of a handler that touches shared state is one action.        *)
(***************************************************************************)
EXTENDS Integers, Sequences, FiniteSets, TLC

\* ------------------------------------------------------------------ bounds
\* Number of Tick steps the clock may take (each of TickMs).
MaxTicks == 2
\* Rows the sender already has in the messages table when observation starts.
InitialSent == 18
\* Requests accepted past validation (caps the growth of the messages table).
MaxNew == 3
\* The request slots that may be in flight at the same time.
Requests == {"r1", "r2"}

\* --------------------------------------------------------- program constants
\* 1000 * 60 * 60 * 24 milliseconds (part_000:51).
DayMs == 1000 * 60 * 60 * 24
\* countResult.count! >= 20 (part_000:62).
RateLimit == 20
TickMs == DayMs \div 2

\* JavaScript null / undefined of a string-typed value.
Null == "<null>"
\* !x of a string-or-null value.
Falsy(x) == x = Null \/ x = ""

SpamText == "You've contacted a lot of people today! So to protect the platform from spam we haven't sent this message."

\* ------------------------------------------------------------------ state
VARIABLES
  clock,            \* milliseconds; new Date() and the database's now()
  messages,         \* the messages table, in insertion order
  outbox,           \* emails handed to the provider and accepted by it
  tenant_settings,  \* the tenant_settings table: << >> or <<row>>
  req,              \* per request slot: position and locals of action()
  props,            \* ResearchUpdateForm props: research, researchUpdate
  ui,               \* the component's useState values
  closure,          \* the useState values the handlers of the last render see
  finalForm,        \* react-final-form: values, dirty, submitting, submitSucceeded
  calls,            \* researchService calls issued, each pending or settled
  browser,          \* confetti fired, pending timers, location navigated to
  rendered          \* values derived by the last render

handlerVars == <<clock, messages, outbox, tenant_settings, req>>
formVars == <<props, ui, closure, finalForm, calls, browser, rendered>>
vars == <<clock, messages, outbox, tenant_settings, req,
          props, ui, closure, finalForm, calls, browser, rendered>>

\* ------------------------------------------------------------ environment
\* The profiles table: alice and zed can sign in, bob has an auth_id, carol is
\* a legacy profile without one, "ghost" and "zed" resolve to no profile.
Profiles ==
  { [username |-> "alice", id |-> 1, auth_id |-> "auth-alice"],
    [username |-> "bob",   id |-> 2, auth_id |-> "auth-bob"],
    [username |-> "carol", id |-> 3, auth_id |-> Null] }

\* client.auth.getUser(): << >> is user = null, <<u>> a signed-in user.
Users ==
  { << >>,
    << [username |-> "alice", email |-> "alice@mail.test"] >>,
    << [username |-> "alice", email |-> Null] >>,
    << [username |-> "zed",   email |-> "zed@mail.test"] >> }

Methods == {"POST", "PUT"}

\* request.formData(): a body that cannot be read as form data rejects.
Bodies ==
  { [readable |-> FALSE, to |-> Null, message |-> Null, name |-> Null] }
  \cup
  [ readable : {TRUE},
    to       : {Null, "bob", "carol", "ghost"},
    message  : {Null, "hi"},
    name     : {Null, "Al"} ]

\* The tenant_settings rows a handler run may find.
ConfiguredRow ==
  [ site_name |-> "Fixing Fashion", site_url |-> Null, message_sign_off |-> "",
    email_from |-> "hello@fixing.fashion", site_image |-> Null ]

NoResponse == [status |-> 0, statusText |-> ""]

IdleRequest ==
  [ pc |-> "idle", method |-> "", user |-> << >>, data |-> << >>,
    userProfile |-> << >>, recipientProfile |-> << >>,
    yesterday |-> 0, countResult |-> << >>, settings |-> << >>,
    messageResult |-> << >>, emailResult |-> << >>, sendResult |-> << >>,
    log |-> << >>, response |-> NoResponse ]

\* ------------------------------------------------------------ pure helpers
\* validateRequest with the 'message' check ahead of the 'to' check.
validateRequestMessageFirst(method, user, data) ==
  IF user = << >>
    THEN [valid |-> FALSE, status |-> 401, statusText |-> "unauthorized"]
  ELSE IF method # "POST"
    THEN [valid |-> FALSE, status |-> 405, statusText |-> "method not allowed"]
  ELSE IF Falsy(data.message)
    THEN [valid |-> FALSE, status |-> 400, statusText |-> "message is required"]
  ELSE IF Falsy(data.to)
    THEN [valid |-> FALSE, status |-> 400, statusText |-> "to is required"]
  ELSE IF Falsy(user[1].email)
    THEN [valid |-> FALSE, status |-> 400,
          statusText |-> "Unable to get messenger email address"]
  ELSE [valid |-> TRUE, status |-> 0, statusText |-> ""]

\* validateRequest(request, user, data): the first failing check decides.
validateRequest(method, user, data) ==
  IF user = << >>
    THEN [valid |-> FALSE, status |-> 401, statusText |-> "unauthorized"]
  ELSE IF method # "POST"
    THEN [valid |-> FALSE, status |-> 405, statusText |-> "method not allowed"]
  ELSE IF Falsy(data.to)
    THEN [valid |-> FALSE, status |-> 400, statusText |-> "to is required"]
  ELSE IF Falsy(data.message)
    THEN [valid |-> FALSE, status |-> 400, statusText |-> "message is required"]
  ELSE IF Falsy(user[1].email)
    THEN [valid |-> FALSE, status |-> 400,
          statusText |-> "Unable to get messenger email address"]
  ELSE [valid |-> TRUE, status |-> 0, statusText |-> ""]

\* a || b on string-or-null values.
OrElse(a, b) == IF Falsy(a) THEN b ELSE a

\* getTenantSettings with the sender address never read from the row.
getTenantSettingsFixedSender(rows) ==
  LET data == IF Len(rows) = 1 THEN rows[1]
              ELSE [ site_name |-> Null, site_url |-> Null,
                     message_sign_off |-> Null, email_from |-> Null,
                     site_image |-> Null ]
  IN [ siteName       |-> OrElse(data.site_name, "The Community Platform"),
       siteUrl        |-> OrElse(data.site_url, "https://community.preciousplastic.com"),
       messageSignOff |-> OrElse(data.message_sign_off, "One Army"),
       emailFrom      |-> "hello@onearmy.earth",
       siteImage      |-> OrElse(data.site_image,
         "https://community.preciousplastic.com/assets/img/one-army-logo.png") ]

\* getTenantSettings(client): .single() yields data = null unless there is a row.
getTenantSettings(rows) ==
  LET data == IF Len(rows) = 1 THEN rows[1]
              ELSE [ site_name |-> Null, site_url |-> Null,
                     message_sign_off |-> Null, email_from |-> Null,
                     site_image |-> Null ]
  IN [ siteName       |-> OrElse(data.site_name, "The Community Platform"),
       siteUrl        |-> OrElse(data.site_url, "https://community.preciousplastic.com"),
       messageSignOff |-> OrElse(data.message_sign_off, "One Army"),
       emailFrom      |-> OrElse(data.email_from, "hello@onearmy.earth"),
       siteImage      |-> OrElse(data.site_image,
         "https://community.preciousplastic.com/assets/img/one-army-logo.png") ]

\* client.from('profiles').select(...).eq('username', name): the rows found.
SelectProfile(name) ==
  LET found == {p \in Profiles : p.username = name}
  IN IF found = {} THEN << >> ELSE << CHOOSE p \in found : TRUE >>

\* The count with the comparison made inclusive (gte in place of gt).
CountSinceInclusive(rows, from, yesterday) ==
  Cardinality({ i \in 1..Len(rows) :
                  rows[i].sender_id = from /\ rows[i].created_at >= yesterday })

\* .from('messages').select('id', {count:'exact'}).eq('sender_id', from)
\*   .gt('created_at', yesterday): the number of rows.
CountSince(rows, from, yesterday) ==
  Cardinality({ i \in 1..Len(rows) :
                  rows[i].sender_id = from /\ rows[i].created_at > yesterday })

\* The row the insert adds; created_at is assigned by the database.
NewRow(from, to, text, now) ==
  [sender_id |-> from, receiver_id |-> to, message |-> text, created_at |-> now]

\* if (countResult.count! >= 20)
RateLimitedOffByOne(count) == count > RateLimit
RateLimitedOneEarly(count) == count >= RateLimit - 1
RateLimited(count) == count >= RateLimit

\* The 429 of a provider error, carrying that error.
ProviderErrorAsServerError(error) == [status |-> 500, statusText |-> error]
ProviderErrorResponse(error) == [status |-> 429, statusText |-> error]

\* The response of the catch block.
ErrorResponse == [status |-> 500, statusText |-> "Error sending message"]

\* Response.json(..., {status, statusText}) ends the run of slot r.
Respond(r, rec, response) ==
  req' = [req EXCEPT ![r] = [rec EXCEPT !.pc = "done", !.response = response]]

\* The catch block: console.error(error), then 500.
Throw(r, rec) == Respond(r, rec, ErrorResponse)

\* The awaits in another order: the insert ahead of the settings lookup.
StepAfterInsertFirst(pc) ==
  CASE pc = "count"    -> "insert"
    [] pc = "insert"   -> "settings"
    [] pc = "settings" -> "email"
    [] pc = "email"    -> "send"

\* The order of the awaits after the rate limit (lines 73, 75, 87, 111).
StepAfter(pc) ==
  CASE pc = "count"    -> "settings"
    [] pc = "settings" -> "insert"
    [] pc = "insert"   -> "email"
    [] pc = "email"    -> "send"

\* --------------------------------------------- message send handler: action
\* The start of the handler with the profile lookups issued ahead of
\* validateRequest.
ReceiveProfilesFirst(r, inputs) ==
  /\ req[r].pc = "idle"
  /\ Len(messages) < InitialSent + MaxNew
  /\ \E in \in inputs :
       LET method == in.method
           user == in.user
           body == in.body
           rec0 == [req[r] EXCEPT !.method = method, !.user = user,
                                  !.log = <<"formData">>]
           data == [to |-> body.to, message |-> body.message, name |-> body.name]
           rec1 == [rec0 EXCEPT !.data = <<data>>,
                                !.log = <<"formData", "getUser",
                                          "profiles", "profiles">>]
           v    == validateRequest(method, user, data)
       IN IF ~body.readable
            THEN Throw(r, rec0)
          ELSE IF ~v.valid
            THEN Respond(r, rec1, [status |-> v.status, statusText |-> v.statusText])
          ELSE req' = [req EXCEPT ![r] = [rec1 EXCEPT !.pc = "profiles"]]
  /\ UNCHANGED <<clock, messages, outbox, tenant_settings>>
  /\ UNCHANGED formVars

\* Lines 12-34: formData(), getUser() and validateRequest(); none of them reads
\* or writes the tables, so they are taken in one step.
Receive(r, inputs) ==
  /\ req[r].pc = "idle"
  /\ Len(messages) < InitialSent + MaxNew
  /\ \E in \in inputs :
       LET method == in.method
           user == in.user
           body == in.body
           rec0 == [req[r] EXCEPT !.method = method, !.user = user,
                                  !.log = <<"formData">>]
           data == [to |-> body.to, message |-> body.message, name |-> body.name]
           rec1 == [rec0 EXCEPT !.data = <<data>>,
                                !.log = <<"formData", "getUser">>]
           v    == validateRequest(method, user, data)
       IN IF ~body.readable
            THEN Throw(r, rec0)
          ELSE IF ~v.valid
            THEN Respond(r, rec1, [status |-> v.status, statusText |-> v.statusText])
          ELSE req' = [req EXCEPT ![r] = [rec1 EXCEPT !.pc = "profiles"]]
  /\ UNCHANGED <<clock, messages, outbox, tenant_settings>>
  /\ UNCHANGED formVars

\* Lines 36-48: both profile lookups; .at(0)!.id of an empty result throws.
ResolveProfiles(r) ==
  /\ req[r].pc = "profiles"
  /\ LET rec == [req[r] EXCEPT
                   !.userProfile = SelectProfile(req[r].user[1].username),
                   !.recipientProfile = SelectProfile(req[r].data[1].to),
                   !.log = req[r].log \o <<"profiles", "profiles">>]
     IN IF rec.userProfile = << >> \/ rec.recipientProfile = << >>
          THEN Throw(r, rec)
          ELSE req' = [req EXCEPT ![r] = [rec EXCEPT !.pc = "count"]]
  /\ UNCHANGED <<clock, messages, outbox, tenant_settings>>
  /\ UNCHANGED formVars

\* Lines 50-71: the trailing-24h count and the rate limit.
CountMessages(r) ==
  /\ req[r].pc = "count"
  /\ \E error \in BOOLEAN :
       LET from      == req[r].userProfile[1].id
           yesterday == clock - DayMs
           count     == IF error THEN 0 ELSE CountSince(messages, from, yesterday)
           rec == [req[r] EXCEPT
                     !.yesterday = yesterday,
                     !.countResult = <<[error |-> error, count |-> count]>>,
                     !.log = req[r].log \o <<"count">>]
       IN IF error
            THEN Throw(r, rec)
          ELSE IF RateLimited(count)
            THEN Respond(r, rec, [status |-> 429, statusText |-> SpamText])
          ELSE req' = [req EXCEPT ![r] = [rec EXCEPT !.pc = StepAfter("count")]]
  /\ UNCHANGED <<clock, messages, outbox, tenant_settings>>
  /\ UNCHANGED formVars

\* Line 73: const settings = await getTenantSettings(client).
FetchSettings(r) ==
  /\ req[r].pc = "settings"
  /\ req' = [req EXCEPT ![r] = [req[r] EXCEPT
                !.settings = <<getTenantSettings(tenant_settings)>>,
                !.log = req[r].log \o <<"tenant_settings">>,
                !.pc = StepAfter("settings")]]
  /\ UNCHANGED <<clock, messages, outbox, tenant_settings>>
  /\ UNCHANGED formVars

\* The insert with the check of messageResult.error left out: the handler
\* goes on to the email after an insert that failed.
InsertMessageIgnoresError(r) ==
  /\ req[r].pc = "insert"
  /\ \E error \in BOOLEAN :
       LET rec == [req[r] EXCEPT !.messageResult = <<[error |-> error]>>,
                                 !.log = req[r].log \o <<"insert">>]
       IN /\ messages' = IF error
                           THEN messages
                           ELSE Append(messages,
                                  NewRow(rec.userProfile[1].id,
                                         rec.recipientProfile[1].id,
                                         rec.data[1].message, clock))
          /\ req' = [req EXCEPT ![r] = [rec EXCEPT !.pc = StepAfter("insert")]]
  /\ UNCHANGED <<clock, outbox, tenant_settings>>
  /\ UNCHANGED formVars

\* Lines 75-84: the insert; a reported error is thrown.
InsertMessage(r) ==
  /\ req[r].pc = "insert"
  /\ \E error \in BOOLEAN :
       LET rec == [req[r] EXCEPT !.messageResult = <<[error |-> error]>>,
                                 !.log = req[r].log \o <<"insert">>]
       IN IF error
            THEN Throw(r, rec) /\ UNCHANGED messages
            ELSE /\ messages' = Append(messages,
                        NewRow(rec.userProfile[1].id, rec.recipientProfile[1].id,
                               rec.data[1].message, clock))
                 /\ req' = [req EXCEPT ![r] = [rec EXCEPT !.pc = StepAfter("insert")]]
  /\ UNCHANGED <<clock, outbox, tenant_settings>>
  /\ UNCHANGED formVars

\* Lines 87-92: the recipient's email, by auth id when the profile has one.
LookupEmail(r) ==
  /\ req[r].pc = "email"
  /\ \E rows \in { << >>, <<[email |-> req[r].data[1].to \o "@mail.test"]>> } :
       LET rpc == IF req[r].recipientProfile[1].auth_id # Null
                    THEN "get_user_email_by_id"
                    ELSE "get_user_email_by_username"
       IN req' = [req EXCEPT ![r] = [req[r] EXCEPT
                     !.emailResult = <<[data |-> rows]>>,
                     !.log = req[r].log \o <<rpc>>,
                     !.pc = StepAfter("email")]]
  /\ UNCHANGED <<clock, messages, outbox, tenant_settings>>
  /\ UNCHANGED formVars

\* The email of lines 95-116.
EmailOf(rec) ==
  [ from    |-> rec.settings[1].emailFrom,
    to      |-> rec.emailResult[1].data[1].email,
    subject |-> <<rec.userProfile[1].username, rec.settings[1].siteName>>,
    text    |-> rec.data[1].message,
    receiverName |-> rec.data[1].to,
    messengerEmailAddress |-> rec.user[1].email,
    messengerName |-> rec.data[1].name,
    messengerUsername |-> rec.userProfile[1].username ]

\* Lines 111-125: receiver.email of an undefined receiver throws before the
\* provider is called; otherwise the provider accepts or reports an error.
SendEmail(r) ==
  /\ req[r].pc = "send"
  /\ IF req[r].emailResult[1].data = << >>
       THEN Throw(r, req[r]) /\ UNCHANGED outbox
       ELSE \E error \in {Null, "provider error"} :
              LET rec == [req[r] EXCEPT !.sendResult = <<[error |-> error]>>,
                                        !.log = req[r].log \o <<"sendEmail">>]
              IN /\ outbox' = Append(outbox, EmailOf(rec))
                 /\ IF error # Null
                      THEN Respond(r, rec, ProviderErrorResponse(error))
                      ELSE Respond(r, rec, [status |-> 201, statusText |-> ""])
  /\ UNCHANGED <<clock, messages, tenant_settings>>
  /\ UNCHANGED formVars

\* The response has been delivered; the slot takes the next request.
Reset(r) ==
  /\ req[r].pc = "done"
  /\ req' = [req EXCEPT ![r] = IdleRequest]
  /\ UNCHANGED <<clock, messages, outbox, tenant_settings>>
  /\ UNCHANGED formVars

\* Time passes.
Tick ==
  /\ clock < MaxTicks * TickMs
  /\ clock' = clock + TickMs
  /\ UNCHANGED <<messages, outbox, tenant_settings, req>>
  /\ UNCHANGED formVars

\* ------------------------------------------------------ research update form: state
\* More bounds: service calls one mounted form may issue, entries of
\* values.images, sibling updates of the research.
MaxCalls == 3
MaxImages == 11
MaxUpdates == 3

Min(a, b) == IF a < b THEN a ELSE b

UpdateId(i) == "u" \o ToString(i)

\* getResearchUpdates without the filter on the deleted flag.
getResearchUpdatesUnfiltered(updates, isCreating, researchTitle) ==
  LET mapped == [ i \in 1..Len(updates) |->
                    [ title |-> updates[i].title, isDraft |-> updates[i].isDraft,
                      slug |-> updates[i].id, id |-> updates[i].id ] ]
      draft  == IF isCreating
                  THEN << [title |-> researchTitle, isDraft |-> TRUE,
                           slug |-> Null, id |-> Null] >>
                  ELSE << >>
  IN mapped \o draft

\* getResearchUpdates(updates, isCreating, researchTitle), lines 228-249.
getResearchUpdates(updates, isCreating, researchTitle) ==
  LET kept   == SelectSeq(updates, LAMBDA u : ~u.deleted)
      mapped == [ i \in 1..Len(kept) |->
                    [ title |-> kept[i].title, isDraft |-> kept[i].isDraft,
                      slug |-> kept[i].id, id |-> kept[i].id ] ]
      draft  == IF isCreating
                  THEN << [title |-> researchTitle, isDraft |-> TRUE,
                           slug |-> Null, id |-> Null] >>
                  ELSE << >>
  IN mapped \o draft

\* numberOfImageInputsAvailable counting every entry, empty ones too.
numberOfImageInputsCountingAll(values) ==
  IF values.images # << >>
    THEN Min(Len(values.images[1]) + 1, 10)
    ELSE 1

\* numberOfImageInputsAvailable, lines 146-148; values.images is << >> when
\* the form has no image list and <<list>> otherwise.
numberOfImageInputsAvailable(values) ==
  IF values.images # << >>
    THEN Min(Len(SelectSeq(values.images[1], LAMBDA x : ~Falsy(x))) + 1, 10)
    ELSE 1

\* What a render derives (lines 113, 146-154, 167, 176-180).
RenderOutput(p, u, ff) ==
  [ numberOfImageInputsAvailable |-> numberOfImageInputsAvailable(ff.values),
    updates |-> getResearchUpdates(p.research.updates, p.researchUpdate = << >>,
                                   ff.values.title),
    hasChanges |-> ff.dirty /\ ~ff.submitSucceeded /\ ~u.intentionalNavigation,
    deleteDisabled |-> u.isSaving \/ ff.submitting ]

\* useState initial values, lines 36-39.
InitialUi ==
  [ saveErrorMessage |-> Null, isSaving |-> FALSE,
    showDeleteModal |-> FALSE, intentionalNavigation |-> FALSE ]

\* initialValues of lines 41-65: empty, or taken from the update being edited.
InitialTitle(p) ==
  IF p.researchUpdate = << >> THEN "" ELSE p.researchUpdate[1].title

InitialFinalForm(p) ==
  [ values |-> [title |-> InitialTitle(p), images |-> << << >> >>],
    dirty |-> FALSE, submitting |-> FALSE, submitSucceeded |-> FALSE ]

InitialBrowser == [confetti |-> 0, timers |-> << >>, location |-> Null]

CreateProps ==
  [ research |-> [id |-> "res1", slug |-> "my-research", updates |-> << >>],
    researchUpdate |-> << >> ]

EditProps ==
  [ research |-> [ id |-> "res1", slug |-> "my-research",
                   updates |-> << [id |-> UpdateId(1), title |-> "First",
                                   isDraft |-> FALSE, deleted |-> FALSE] >> ],
    researchUpdate |-> << [id |-> UpdateId(1), title |-> "First"] >> ]

\* The form as first rendered with props p.
Mounted(p) ==
  /\ props = p
  /\ ui = InitialUi
  /\ closure = InitialUi
  /\ finalForm = InitialFinalForm(p)
  /\ calls = << >>
  /\ browser = InitialBrowser
  /\ rendered = RenderOutput(p, InitialUi, InitialFinalForm(p))

\* ------------------------------------------------------- specifications
\* The sender's earlier messages, all sent at time 0.
SeedMessages == [i \in 1..InitialSent |-> NewRow(1, 2, "hi", 0)]

Init ==
  /\ clock = 0
  /\ messages = SeedMessages
  /\ outbox = << >>
  /\ tenant_settings \in { << >>, <<ConfiguredRow>> }
  /\ req = [r \in Requests |-> IdleRequest]
  /\ Mounted(CreateProps)

RaceInit ==
  /\ clock = 0
  /\ messages = SeedMessages
  /\ outbox = << >>
  /\ tenant_settings = << >>
  /\ req = [r \in Requests |-> IdleRequest]
  /\ Mounted(CreateProps)

\* Every request the model offers the handler.
AllInputs == [method : Methods, user : Users, body : Bodies]

\* The requests of signed-in senders that pass validateRequest.
ValidInputs ==
  { in \in AllInputs :
      /\ in.body.readable
      /\ in.body.name = Null
      /\ validateRequest(in.method, in.user, in.body).valid }

\* The steps of the handler run in slot r.
Handle(r) ==
  \/ ResolveProfiles(r)
  \/ CountMessages(r)
  \/ FetchSettings(r)
  \/ InsertMessage(r)
  \/ LookupEmail(r)
  \/ SendEmail(r)
  \/ Reset(r)

\* One request at a time, any request.
Next ==
  \/ Receive("r1", AllInputs)
  \/ Handle("r1")
  \/ Tick

Spec == Init /\ [][Next]_vars

\* Requests of one sender to one recipient, handled concurrently in every slot.
RaceInputs ==
  { in \in ValidInputs : in.user[1].username = "alice" /\ in.body.to = "bob" }

RaceNext ==
  \/ \E r \in Requests : Receive(r, RaceInputs)
  \/ \E r \in Requests : Handle(r)
  \/ Tick

RaceSpec == RaceInit /\ [][RaceNext]_vars

\* ------------------------------------------- research update form: events
\* The component is on screen until a navigation replaces the page.
OnScreen == browser.location = Null

\* Lines 71-84: the synchronous part of onSubmit(formData, isDraft), run with
\* the isSaving of the render the handler belongs to.
OnSubmitStart(isDraft, viaForm) ==
  IF closure.isSaving
    THEN /\ UNCHANGED <<ui, calls>>
         /\ finalForm' = IF viaForm
                           THEN [finalForm EXCEPT !.submitting = FALSE,
                                                  !.submitSucceeded = TRUE]
                           ELSE finalForm
    ELSE /\ ui' = [ui EXCEPT !.isSaving = TRUE, !.intentionalNavigation = TRUE,
                             !.saveErrorMessage = Null]
         /\ calls' = Append(calls,
              [ op |-> "upsertUpdate", researchId |-> props.research.id,
                id |-> IF props.researchUpdate = << >> THEN Null
                       ELSE props.researchUpdate[1].id,
                isDraft |-> isDraft, viaForm |-> viaForm, status |-> "pending",
                result |-> << >> ])
         /\ finalForm' = IF viaForm
                           THEN [finalForm EXCEPT !.submitting = TRUE]
                           ELSE finalForm

\* Lines 128-129: the publish button submits through react-final-form, which
\* ignores a submit while its own submitting flag is set.
SubmitPublish ==
  /\ OnScreen
  /\ Len(calls) < MaxCalls
  /\ ~finalForm.submitting
  /\ OnSubmitStart(FALSE, TRUE)
  /\ UNCHANGED <<props, closure, browser, rendered>>
  /\ UNCHANGED handlerVars

\* Line 144: handleSubmitDraft = () => onSubmit(values, true).
SubmitDraft ==
  /\ OnScreen
  /\ Len(calls) < MaxCalls
  /\ OnSubmitStart(TRUE, FALSE)
  /\ UNCHANGED <<props, closure, browser, rendered>>
  /\ UNCHANGED handlerVars

\* react-final-form settles its submit when the promise of onSubmit does.
SubmitSettled(call) ==
  IF call.viaForm
    THEN [finalForm EXCEPT !.submitting = FALSE, !.submitSucceeded = TRUE]
    ELSE finalForm

NavigateUrl(slug, id) == "/research/" \o slug \o "#update_" \o id

\* State set in an event handler is rendered before the task of the event
\* ends, so the promise of a service call settles after that render.
RenderFlushed == OnScreen => closure = ui

\* The celebration fired for drafts as well.
ConfettiAlways(confetti, isDraft) == confetti + 1

\* Lines 86-88: if (!isDraft) fireConfetti().
ConfettiAfter(confetti, isDraft) == IF ~isDraft THEN confetti + 1 ELSE confetti

\* The catch block without setIsSaving(false).
AfterFailureStillSaving(u, message) == [u EXCEPT !.saveErrorMessage = message]

\* The catch block with the navigation flag taken back.
AfterFailureClearsIntent(u, message) ==
  [u EXCEPT !.saveErrorMessage = message, !.isSaving = FALSE,
            !.intentionalNavigation = FALSE]

\* Lines 97-101: setSaveErrorMessage(error.message), setIsSaving(false).
AfterFailure(u, message) ==
  [u EXCEPT !.saveErrorMessage = message, !.isSaving = FALSE]

\* Lines 79-96: upsertUpdate resolved with result (<< >>: a falsy result).
UpsertResolves(i) ==
  /\ i \in 1..Len(calls)
  /\ calls[i].op = "upsertUpdate" /\ calls[i].status = "pending"
  /\ RenderFlushed
  /\ \E result \in { << >>, <<[researchUpdate |-> [id |-> UpdateId(1)]]>>,
                     <<[researchUpdate |-> [id |-> UpdateId(2)]]>> } :
       /\ calls' = [calls EXCEPT ![i].status = "resolved", ![i].result = result]
       /\ browser' = [browser EXCEPT
            !.confetti = ConfettiAfter(@, calls[i].isDraft),
            !.timers = IF result # << >>
                         THEN Append(@, NavigateUrl(props.research.slug,
                                                    result[1].researchUpdate.id))
                         ELSE @ ]
  /\ finalForm' = SubmitSettled(calls[i])
  /\ UNCHANGED <<props, ui, closure, rendered>>
  /\ UNCHANGED handlerVars

\* Lines 97-101: upsertUpdate rejected.
UpsertRejects(i) ==
  /\ i \in 1..Len(calls)
  /\ calls[i].op = "upsertUpdate" /\ calls[i].status = "pending"
  /\ RenderFlushed
  /\ calls' = [calls EXCEPT ![i].status = "rejected"]
  /\ ui' = AfterFailure(ui, "save failed")
  /\ finalForm' = SubmitSettled(calls[i])
  /\ UNCHANGED <<props, closure, browser, rendered>>
  /\ UNCHANGED handlerVars

\* Lines 91-95: the 100 ms timer fires and navigate() replaces the form.
TimerFires ==
  /\ OnScreen
  /\ browser.timers # << >>
  /\ browser' = [browser EXCEPT !.location = Head(browser.timers),
                                !.timers = Tail(browser.timers)]
  /\ UNCHANGED <<props, ui, closure, finalForm, calls, rendered>>
  /\ UNCHANGED handlerVars

\* React renders the component again: the handlers now see the current state.
Render ==
  /\ OnScreen
  /\ \/ closure # ui
     \/ rendered # RenderOutput(props, ui, finalForm)
  /\ closure' = ui
  /\ rendered' = RenderOutput(props, ui, finalForm)
  /\ UNCHANGED <<props, ui, finalForm, calls, browser>>
  /\ UNCHANGED handlerVars

\* A change of the form values: react-final-form calls the render prop of the
\* last component render again (lines 132-141).
ChangeValues(values) ==
  /\ finalForm' = [finalForm EXCEPT
        !.values = values,
        !.dirty = (values # InitialFinalForm(props).values)]
  /\ rendered' = RenderOutput(props, closure, finalForm')
  /\ UNCHANGED <<props, ui, closure, calls, browser>>
  /\ UNCHANGED handlerVars

Titles == {"", "First"}

\* The user types in the title field (line 204).
EditTitle(t) ==
  /\ OnScreen
  /\ t # finalForm.values.title
  /\ ChangeValues([finalForm.values EXCEPT !.title = t])

\* values.images with entry i set to x; entries skipped over are empty.
SetEntry(images, i, x) ==
  LET list == IF images = << >> THEN << >> ELSE images[1]
  IN << [ k \in 1..(IF i > Len(list) THEN i ELSE Len(list)) |->
            IF k = i THEN x ELSE IF k <= Len(list) THEN list[k] ELSE Null ] >>

\* The user fills or empties one of the image inputs offered (lines 206-210).
SetImage(i, x) ==
  /\ OnScreen
  /\ i \in 1..rendered.numberOfImageInputsAvailable
  /\ SetEntry(finalForm.values.images, i, x) # finalForm.values.images
  /\ ChangeValues([finalForm.values EXCEPT !.images = SetEntry(@, i, x)])

\* Lines 158-172: the delete button, shown when editing.
ClickDelete ==
  /\ OnScreen
  /\ props.researchUpdate # << >>
  /\ ~rendered.deleteDisabled
  /\ ui' = [ui EXCEPT !.showDeleteModal = TRUE]
  /\ UNCHANGED <<props, closure, finalForm, calls, browser, rendered>>
  /\ UNCHANGED handlerVars

\* Line 221: handleCancel of the confirm modal.
CancelDelete ==
  /\ OnScreen
  /\ closure.showDeleteModal
  /\ ui' = [ui EXCEPT !.showDeleteModal = FALSE]
  /\ UNCHANGED <<props, closure, finalForm, calls, browser, rendered>>
  /\ UNCHANGED handlerVars

\* handleDelete without its early return.
HandleDeleteUnguarded ==
  /\ OnScreen
  /\ closure.showDeleteModal \/ props.researchUpdate = << >>
  /\ Len(calls) < MaxCalls
  /\ ui' = [ui EXCEPT !.showDeleteModal = FALSE]
  /\ calls' = Append(calls,
       [ op |-> "deleteUpdate", researchId |-> props.research.id,
         id |-> IF props.researchUpdate = << >> THEN Null
                ELSE props.researchUpdate[1].id,
         isDraft |-> FALSE, viaForm |-> FALSE, status |-> "pending",
         result |-> << >> ])
  /\ UNCHANGED <<props, closure, finalForm, browser, rendered>>
  /\ UNCHANGED handlerVars

\* Lines 104-109: handleDelete up to its await. It is the handleConfirm of the
\* modal; without an update to delete its only guard is the early return, so
\* there it may be called whatever the modal shows.
HandleDelete ==
  /\ OnScreen
  /\ closure.showDeleteModal \/ props.researchUpdate = << >>
  /\ Len(calls) < MaxCalls
  /\ IF props.researchUpdate = << >>
       THEN UNCHANGED <<ui, calls>>
       ELSE /\ ui' = [ui EXCEPT !.showDeleteModal = FALSE]
            /\ calls' = Append(calls,
                 [ op |-> "deleteUpdate", researchId |-> props.research.id,
                   id |-> props.researchUpdate[1].id,
                   isDraft |-> FALSE, viaForm |-> FALSE, status |-> "pending",
                   result |-> << >> ])
  /\ UNCHANGED <<props, closure, finalForm, browser, rendered>>
  /\ UNCHANGED handlerVars

\* Line 110: deleteUpdate resolved, window.location.assign loads the page anew.
DeleteResolves(i) ==
  /\ i \in 1..Len(calls)
  /\ calls[i].op = "deleteUpdate" /\ calls[i].status = "pending"
  /\ RenderFlushed
  /\ calls' = [calls EXCEPT ![i].status = "resolved"]
  /\ browser' = [browser EXCEPT !.location = "/research/" \o props.research.slug,
                                !.timers = << >>]
  /\ UNCHANGED <<props, ui, closure, finalForm, rendered>>
  /\ UNCHANGED handlerVars

\* deleteUpdate rejected: handleDelete ends with the rejection.
DeleteRejects(i) ==
  /\ i \in 1..Len(calls)
  /\ calls[i].op = "deleteUpdate" /\ calls[i].status = "pending"
  /\ RenderFlushed
  /\ calls' = [calls EXCEPT ![i].status = "rejected"]
  /\ UNCHANGED <<props, ui, closure, finalForm, browser, rendered>>
  /\ UNCHANGED handlerVars

\* The handler's tables while the form is observed.
HandlerIdle ==
  /\ clock = 0
  /\ messages = << >>
  /\ outbox = << >>
  /\ tenant_settings = << >>
  /\ req = [r \in Requests |-> IdleRequest]

FormInit ==
  /\ HandlerIdle
  /\ \E p \in {CreateProps, EditProps} : Mounted(p)

FormNext ==
  \/ SubmitPublish
  \/ SubmitDraft
  \/ \E i \in 1..MaxCalls : UpsertResolves(i)
  \/ \E i \in 1..MaxCalls : UpsertRejects(i)
  \/ TimerFires
  \/ Render
  \/ \E t \in Titles : EditTitle(t)
  \/ ClickDelete
  \/ CancelDelete
  \/ HandleDelete
  \/ \E i \in 1..MaxCalls : DeleteResolves(i)
  \/ \E i \in 1..MaxCalls : DeleteRejects(i)

FormSpec == FormInit /\ [][FormNext]_vars

\* The browser fires a timer that is due (line 91: setTimeout(..., 100)).
FairFormSpec == FormSpec /\ WF_vars(TimerFires)

\* The form mounted with props p and showing the values given.
Showing(p, values) ==
  LET ff == [InitialFinalForm(p) EXCEPT !.values = values]
  IN /\ props = p
     /\ ui = InitialUi
     /\ closure = InitialUi
     /\ finalForm = ff
     /\ calls = << >>
     /\ browser = InitialBrowser
     /\ rendered = RenderOutput(p, InitialUi, ff)

ImageEntries == {Null, "image.png"}

\* values.images: no list, or any list of up to MaxImages entries.
ImageInputs ==
  { << >> } \cup
  { <<list>> : list \in UNION { [1..n -> ImageEntries] : n \in 0..MaxImages } }

ImagesInit ==
  /\ HandlerIdle
  /\ \E images \in ImageInputs :
       Showing(CreateProps, [title |-> "", images |-> images])

ImagesNext == \E i \in 1..10, x \in ImageEntries : SetImage(i, x)

ImagesSpec == ImagesInit /\ [][ImagesNext]_vars

\* The sibling updates of a research: up to MaxUpdates, each draft or
\* published, deleted or not.
UpdateLists ==
  { [ i \in 1..n |-> [ id |-> UpdateId(i), title |-> "Update " \o ToString(i),
                       isDraft |-> flags[i].isDraft, deleted |-> flags[i].deleted ] ] :
      n \in 0..MaxUpdates,
      flags \in [1..MaxUpdates -> [isDraft : BOOLEAN, deleted : BOOLEAN]] }

SidebarInit ==
  /\ HandlerIdle
  /\ \E updates \in UpdateLists, update \in {CreateProps.researchUpdate,
                                              EditProps.researchUpdate} :
       Showing([ research |-> [CreateProps.research EXCEPT !.updates = updates],
                 researchUpdate |-> update ],
               [title |-> InitialTitle([researchUpdate |-> update]),
                images |-> << << >> >>])

SidebarNext == \E t \in Titles : EditTitle(t)

SidebarSpec == SidebarInit /\ [][SidebarNext]_vars

\* Every tenant_settings row: each column unset (null or empty) or configured.
AllTenantRows ==
  [ site_name        : {Null, "", "Fixing Fashion"},
    site_url         : {Null, "", "https://community.fixing.fashion"},
    message_sign_off : {Null, "", "Fixing Fashion Team"},
    email_from       : {Null, "", "hello@fixing.fashion"},
    site_image       : {Null, "", "https://community.fixing.fashion/logo.png"} ]

SettingsInit ==
  /\ clock = 0
  /\ messages = SeedMessages
  /\ outbox = << >>
  /\ tenant_settings \in { << >> } \cup { <<row>> : row \in AllTenantRows }
  /\ req = [r \in Requests |-> IdleRequest]
  /\ Mounted(CreateProps)

\* One sender writing to one recipient, under every tenant configuration.
SettingsInputs == { in \in ValidInputs : in.user[1].username = "alice" /\ in.body.to = "bob" }

SettingsNext ==
  \/ Receive("r1", SettingsInputs)
  \/ Handle("r1")

SettingsSpec == SettingsInit /\ [][SettingsNext]_vars

\* ------------------------------------------------- claims: message handler
\* Vocabulary of the claims below.
Done(r) == req[r].pc = "done"
Finishes(r) == req[r].pc # "done" /\ req'[r].pc = "done"
BodyRead(rec) == rec.data # << >>
PassedValidation(rec) ==
  BodyRead(rec) /\ validateRequest(rec.method, rec.user, rec.data[1]).valid
Inserted(rec) == rec.messageResult # << >> /\ ~rec.messageResult[1].error
\* The sender's rows with created_at strictly later than now - 24h.
SenderCount(rec, rows, now) ==
  LET p == SelectProfile(rec.user[1].username)
  IN IF p = << >> THEN 0 ELSE CountSince(rows, p[1].id, now - DayMs)
IsSpamResponse(resp) == resp.status = 429 /\ resp.statusText = SpamText

\* C1 as stated: every request that passes validation and whose sender has 20
\* or more messages in the trailing 24 hours (and that has not itself inserted
\* one) is answered 429 with the spam-protection text.
C1_AsStated ==
  [][\A r \in Requests :
       ( /\ Finishes(r)
         /\ PassedValidation(req'[r])
         /\ ~Inserted(req'[r])
         /\ SenderCount(req'[r], messages, clock) >= 20 )
       => IsSpamResponse(req'[r].response)]_vars

\* C1 amended: a request that passes validation, whose sender and recipient
\* resolve to a profile and whose count query reports no error, is answered 429
\* with the spam-protection text when the sender has 20 or more messages later
\* than now - 24h; that step leaves the messages table and the outbox as they
\* are, and the request has issued no insert and no sendEmail.
C1_RateLimitRejects ==
  /\ [][\A r \in Requests :
          ( /\ req[r].pc = "count"
            /\ req'[r] # req[r]
            /\ ~req'[r].countResult[1].error
            /\ SenderCount(req[r], messages, clock) >= 20 )
          => /\ req'[r].pc = "done"
             /\ IsSpamResponse(req'[r].response)
             /\ messages' = messages
             /\ outbox' = outbox]_vars
  /\ [](\A r \in Requests :
          (Done(r) /\ IsSpamResponse(req[r].response))
          => /\ req[r].messageResult = << >>
             /\ req[r].sendResult = << >>
             /\ \A i \in 1..Len(req[r].log) :
                  req[r].log[i] \notin {"insert", "sendEmail"})

C1_Witness ==
  \E r \in Requests :
    /\ Done(r)
    /\ IsSpamResponse(req[r].response)
    /\ req[r].countResult[1].count >= 20
    /\ CountSince(messages, 1, req[r].yesterday) >= 20

\* C2 as stated: a request with no authenticated user is answered 401
\* "unauthorized", whatever its method, body and fields.
C2_Unauthorized ==
  \A r \in Requests :
    (Done(r) /\ req[r].user = << >>)
    => (req[r].response.status = 401 /\ req[r].response.statusText = "unauthorized")

\* C3 as stated: a request of an authenticated user whose method is not POST
\* is answered 405 "method not allowed", whether or not its body can be read.
C3_MethodNotAllowed ==
  \A r \in Requests :
    (Done(r) /\ req[r].user # << >> /\ req[r].method # "POST")
    => ( /\ req[r].response.status = 405
         /\ req[r].response.statusText = "method not allowed" )

\* C4: for an authenticated POST whose form data was read, the first failing
\* field check decides: no 'to' gives 400 "to is required" (whatever 'message'
\* and the email are); else no 'message' gives 400 "message is required"; else
\* no user email gives 400 "Unable to get messenger email address"; and a
\* request failing no check is answered neither 401, 405 nor one of these 400s.
ValidationTexts ==
  {"to is required", "message is required", "Unable to get messenger email address"}

C4_FailFastOrder ==
  \A r \in Requests :
    (Done(r) /\ BodyRead(req[r]) /\ req[r].user # << >> /\ req[r].method = "POST")
    => LET d == req[r].data[1]
           resp == req[r].response
           noTo == d.to \in {Null, ""}
           noMessage == d.message \in {Null, ""}
           noEmail == req[r].user[1].email \in {Null, ""}
       IN /\ noTo => (resp.status = 400 /\ resp.statusText = "to is required")
          /\ (~noTo /\ noMessage)
               => (resp.status = 400 /\ resp.statusText = "message is required")
          /\ (~noTo /\ ~noMessage /\ noEmail)
               => ( /\ resp.status = 400
                    /\ resp.statusText = "Unable to get messenger email address" )
          /\ (~noTo /\ ~noMessage /\ ~noEmail)
               => ( /\ resp.status \notin {401, 405}
                    /\ ~(resp.status = 400 /\ resp.statusText \in ValidationTexts) )

\* Both 'to' and 'message' missing and no user email: "to is required" wins.
C4_Witness ==
  \E r \in Requests :
    /\ Done(r) /\ BodyRead(req[r])
    /\ req[r].user # << >> /\ req[r].method = "POST"
    /\ req[r].data[1].to = Null /\ req[r].data[1].message = Null
    /\ req[r].user[1].email = Null
    /\ req[r].response = [status |-> 400, statusText |-> "to is required"]

\* The locals of a request whose count query returned n without an error.
Counted(rec, n) ==
  rec.countResult # << >> /\ ~rec.countResult[1].error /\ rec.countResult[1].count = n
\* Neither the insert, the email lookup nor the provider failed.
NoErrors(rec) ==
  /\ Inserted(rec)
  /\ rec.emailResult # << >> /\ rec.emailResult[1].data # << >>
  /\ rec.sendResult # << >> /\ rec.sendResult[1].error = Null

\* C5: a valid request whose sender has exactly 19 messages in the trailing 24
\* hours is not rate limited; when neither the database nor the provider
\* reports an error it is answered 201, its row is the last of the table, the
\* sender's count in that window has become 20 and its email is in the outbox.
\* The insert adds exactly one row and no other step of the run changes the table.
C5_NineteenSucceeds ==
  /\ [](\A r \in Requests :
          (Done(r) /\ Counted(req[r], 19))
          => /\ ~IsSpamResponse(req[r].response)
             /\ req[r].messageResult # << >>
             /\ NoErrors(req[r])
                  => /\ req[r].response.status = 201
                     /\ CountSince(messages, req[r].userProfile[1].id,
                                   req[r].yesterday) = 20
                     /\ LET row == messages[Len(messages)]
                        IN /\ row.sender_id = req[r].userProfile[1].id
                           /\ row.receiver_id = req[r].recipientProfile[1].id
                           /\ row.message = req[r].data[1].message
                           /\ row.created_at > req[r].yesterday
                     /\ outbox # << >>
                     /\ outbox[Len(outbox)].to = req[r].emailResult[1].data[1].email
                     /\ outbox[Len(outbox)].text = req[r].data[1].message)
  /\ [][\A r \in Requests :
          (req'[r] # req[r] /\ Counted(req[r], 19))
          => IF req[r].pc = "insert" /\ req'[r].pc = "email"
               THEN Len(messages') = Len(messages) + 1
               ELSE messages' = messages]_vars

C5_Witness ==
  \E r \in Requests :
    /\ Done(r) /\ Counted(req[r], 19) /\ NoErrors(req[r])
    /\ req[r].response.status = 201
    /\ CountSince(messages, 1, req[r].yesterday) = 20

\* C6: when the provider reports an error, the response is 429 carrying that
\* error, and the row inserted before is still in the table: the sender's count
\* in the request's window is one more than the count query returned, and the
\* step that handles the provider's answer leaves the table as it is.
C6_ProviderErrorKeepsRow ==
  /\ [](\A r \in Requests :
          (Done(r) /\ req[r].sendResult # << >> /\ req[r].sendResult[1].error # Null)
          => /\ req[r].response.status = 429
             /\ req[r].response.statusText = req[r].sendResult[1].error
             /\ Inserted(req[r])
             /\ \E i \in 1..Len(messages) :
                  /\ messages[i].sender_id = req[r].userProfile[1].id
                  /\ messages[i].receiver_id = req[r].recipientProfile[1].id
                  /\ messages[i].message = req[r].data[1].message
                  /\ messages[i].created_at > req[r].yesterday
             /\ CountSince(messages, req[r].userProfile[1].id, req[r].yesterday)
                  = req[r].countResult[1].count + 1)
  /\ [][\A r \in Requests :
          (req[r].pc = "send" /\ req'[r] # req[r]) => messages' = messages]_vars

C6_Witness ==
  \E r \in Requests :
    /\ Done(r)
    /\ req[r].sendResult # << >> /\ req[r].sendResult[1].error = "provider error"
    /\ req[r].response = [status |-> 429, statusText |-> "provider error"]
    /\ Len(messages) = InitialSent + 1

\* C10: with no tenant_settings row the settings are exactly the five
\* documented defaults; with a row, each field is the configured value when
\* one is set and its own default when it is unset.
IsSet(x) == x \notin {Null, ""}

C10_TenantDefaults ==
  \A r \in Requests :
    req[r].settings # << >>
    => LET s == req[r].settings[1]
       IN IF tenant_settings = << >>
            THEN s = [ siteName |-> "The Community Platform",
                       siteUrl |-> "https://community.preciousplastic.com",
                       messageSignOff |-> "One Army",
                       emailFrom |-> "hello@onearmy.earth",
                       siteImage |->
                         "https://community.preciousplastic.com/assets/img/one-army-logo.png" ]
            ELSE LET row == tenant_settings[1]
                 IN /\ s.siteName = IF IsSet(row.site_name) THEN row.site_name
                                    ELSE "The Community Platform"
                    /\ s.siteUrl = IF IsSet(row.site_url) THEN row.site_url
                                   ELSE "https://community.preciousplastic.com"
                    /\ s.messageSignOff = IF IsSet(row.message_sign_off)
                                          THEN row.message_sign_off ELSE "One Army"
                    /\ s.emailFrom = IF IsSet(row.email_from) THEN row.email_from
                                     ELSE "hello@onearmy.earth"
                    /\ s.siteImage = IF IsSet(row.site_image) THEN row.site_image
                                     ELSE "https://community.preciousplastic.com/assets/img/one-army-logo.png"

\* No row: an email has gone out from the default sender under the default name.
C10_Witness ==
  /\ tenant_settings = << >>
  /\ \E r \in Requests :
       /\ req[r].settings # << >>
       /\ req[r].settings[1].messageSignOff = "One Army"
  /\ outbox # << >>
  /\ outbox[1].from = "hello@onearmy.earth"
  /\ outbox[1].subject = <<"alice", "The Community Platform">>

\* -------------------------------------------- claims: research update form
PendingUpserts ==
  { i \in 1..Len(calls) : calls[i].op = "upsertUpdate" /\ calls[i].status = "pending" }

\* C7 as stated: there is never a second upsertUpdate call in flight while an
\* earlier one has neither resolved nor rejected, also when two submit events
\* are handled before the component has rendered again.
C7_NoConcurrentUpsert == Cardinality(PendingUpserts) <= 1

\* C8: with N non-empty entries in values.images the form offers N + 1 image
\* inputs when N < 9 and 10 when N >= 9; it offers 1 when there is no list.
FilledImages ==
  IF finalForm.values.images = << >> THEN {}
  ELSE { i \in 1..Len(finalForm.values.images[1]) :
           finalForm.values.images[1][i] \notin {Null, ""} }

C8_ImageSlots ==
  LET n == Cardinality(FilledImages)
  IN /\ finalForm.values.images = << >> => rendered.numberOfImageInputsAvailable = 1
     /\ (finalForm.values.images # << >> /\ n < 9)
          => rendered.numberOfImageInputsAvailable = n + 1
     /\ (finalForm.values.images # << >> /\ n >= 9)
          => rendered.numberOfImageInputsAvailable = 10

\* Ten images filled in after the user changed an input, one entry left empty.
C8_Witness ==
  /\ finalForm.dirty
  /\ Cardinality(FilledImages) = 10
  /\ Len(finalForm.values.images[1]) = 11
  /\ rendered.numberOfImageInputsAvailable = 10

\* C9: the preview list holds exactly the updates whose deleted flag is not
\* set, in their order, followed by one draft entry (the title being typed,
\* isDraft, no id) when creating and by none when editing; no deleted update
\* is in the list.
C9_SidebarPreview ==
  LET ups      == props.research.updates
      list     == rendered.updates
      creating == props.researchUpdate = << >>
      keptIdx  == { i \in 1..Len(ups) : ~ups[i].deleted }
      n        == Cardinality(keptIdx)
  IN /\ Len(list) = n + (IF creating THEN 1 ELSE 0)
     /\ \A i \in keptIdx :
          LET k == Cardinality({ j \in keptIdx : j <= i })
          IN /\ list[k].id = ups[i].id
             /\ list[k].slug = ups[i].id
             /\ list[k].title = ups[i].title
             /\ list[k].isDraft = ups[i].isDraft
     /\ creating => list[n + 1] = [ title |-> finalForm.values.title, isDraft |-> TRUE,
                                    slug |-> Null, id |-> Null ]
     /\ Cardinality({ k \in 1..Len(list) : list[k].id = Null })
          = (IF creating THEN 1 ELSE 0)
     /\ \A k \in 1..Len(list) : \A i \in 1..Len(ups) :
          ups[i].deleted => list[k].id # ups[i].id

\* Creating, after the title was typed: a deleted update between two kept ones.
C9_Witness ==
  /\ props.researchUpdate = << >>
  /\ finalForm.dirty /\ finalForm.values.title = "First"
  /\ Len(props.research.updates) = 3
  /\ ~props.research.updates[1].deleted
  /\ props.research.updates[2].deleted
  /\ ~props.research.updates[3].deleted
  /\ Len(rendered.updates) = 3
  /\ rendered.updates[2].id = UpdateId(3)
  /\ rendered.updates[3].title = "First"

\* ------------------------------------------- claims: concurrent requests
\* C11: two requests of one sender handled concurrently can both pass the
\* count check before either insert commits. A request holds a count below 20
\* from its check until its insert, and the insert appends its row whatever
\* the table holds by then; the reachable state in which both inserted and
\* the sender has more than 20 rows inside one 24-hour window is C11_Witness.
C11_RaceOvershoot ==
  /\ [](\A r \in Requests :
          req[r].pc \in {"settings", "insert"}
          => /\ ~req[r].countResult[1].error
             /\ req[r].countResult[1].count < 20)
  /\ [][\A r \in Requests :
          (req[r].pc = "insert" /\ req'[r] # req[r] /\ Inserted(req'[r]))
          => /\ Len(messages') = Len(messages) + 1
             /\ messages'[Len(messages')].sender_id = req[r].userProfile[1].id
             /\ messages'[Len(messages')].created_at = clock
             /\ SubSeq(messages', 1, Len(messages)) = messages]_vars

C11_Witness ==
  \E r \in Requests : \E q \in Requests \ {r} :
    /\ Inserted(req[r]) /\ Inserted(req[q])
    /\ req[r].userProfile = req[q].userProfile
    /\ req[r].countResult[1].count = 19
    /\ req[q].countResult[1].count = 19
    /\ req[r].yesterday = req[q].yesterday
    /\ CountSince(messages, req[r].userProfile[1].id, req[r].yesterday) > 20
    /\ CountSince(messages, req[r].userProfile[1].id, clock - DayMs) > 20

\* ------------------------------------------------ claims: order of the calls
\* Vocabulary: call a is in the log, and ahead of every call b of the log.
Issued(rec, a) == \E i \in 1..Len(rec.log) : rec.log[i] \in a
Precedes(rec, a, b) ==
  \A i \in 1..Len(rec.log) :
    rec.log[i] \in b => \E j \in 1..(i - 1) : rec.log[j] \in a
EmailRpcs == {"get_user_email_by_id", "get_user_email_by_username"}

\* C12 as stated: on the path that is not rate limited the message row is
\* inserted first and the tenant settings are fetched only afterwards, ahead
\* of the recipient-email lookup and the email dispatch.
C12_AsStated ==
  \A r \in Requests :
    /\ Precedes(req[r], {"insert"}, {"tenant_settings"})
    /\ Precedes(req[r], {"tenant_settings"}, EmailRpcs)
    /\ Precedes(req[r], EmailRpcs, {"sendEmail"})

\* C12 amended: on the path that is not rate limited the tenant settings are
\* fetched first, the message row is inserted afterwards, then the recipient's
\* email is looked up and the email is dispatched; a request holds its
\* settings whenever it has issued the insert.
C12_SettingsBeforeInsert ==
  \A r \in Requests :
    /\ Precedes(req[r], {"count"}, {"tenant_settings"})
    /\ Precedes(req[r], {"tenant_settings"}, {"insert"})
    /\ Precedes(req[r], {"insert"}, EmailRpcs)
    /\ Precedes(req[r], EmailRpcs, {"sendEmail"})
    /\ (req[r].messageResult # << >> => req[r].settings # << >>)

C12_Witness ==
  \E r \in Requests :
    /\ Done(r)
    /\ req[r].response.status = 201
    /\ \E rpc \in EmailRpcs :
         req[r].log = <<"formData", "getUser", "profiles", "profiles", "count",
                        "tenant_settings", "insert", rpc, "sendEmail">>

\* ----------------------------------------------- claims: validation failures
\* The responses of validateRequest: 401, 405 and the three 400s.
IsValidationFailure(resp) ==
  \/ resp.status \in {401, 405}
  \/ resp.status = 400 /\ resp.statusText \in ValidationTexts

\* C13: a request answered 401, 405 or a validation 400 has issued no profile,
\* message-count or tenant-settings query, no insert, no email lookup and no
\* email dispatch, and the step that answers it leaves the messages table, the
\* outbox and the tenant settings as they are.
C13_ValidationBeforeEffects ==
  /\ [](\A r \in Requests :
          (Done(r) /\ IsValidationFailure(req[r].response))
          => /\ req[r].log = <<"formData", "getUser">>
             /\ req[r].userProfile = << >>
             /\ req[r].recipientProfile = << >>
             /\ req[r].countResult = << >>
             /\ req[r].settings = << >>
             /\ req[r].messageResult = << >>
             /\ req[r].emailResult = << >>
             /\ req[r].sendResult = << >>)
  /\ [][\A r \in Requests :
          (Finishes(r) /\ IsValidationFailure(req'[r].response))
          => /\ messages' = messages
             /\ outbox' = outbox
             /\ tenant_settings' = tenant_settings]_vars

C13_Witness ==
  \E r \in Requests :
    /\ Done(r)
    /\ req[r].response = [status |-> 400, statusText |-> "message is required"]
    /\ req[r].method = "POST"
    /\ req[r].data[1].to = "bob"
    /\ req[r].log = <<"formData", "getUser">>
    /\ messages = SeedMessages
    /\ outbox = << >>

\* -------------------------------------------------- claims: thrown exceptions
\* The request ran into one of the throws of the try block: a body that cannot
\* be read, a username that resolves to no profile, an error of the count
\* query or of the insert, or an email lookup that returns no row.
Threw(rec) ==
  \/ ~BodyRead(rec)
  \/ Issued(rec, {"profiles"})
       /\ (rec.userProfile = << >> \/ rec.recipientProfile = << >>)
  \/ rec.countResult # << >> /\ rec.countResult[1].error
  \/ rec.messageResult # << >> /\ rec.messageResult[1].error
  \/ rec.emailResult # << >> /\ rec.emailResult[1].data = << >>

\* C14: every request that threw is answered 500 "Error sending message";
\* after an error of the count query the request issues no insert and the
\* table is unchanged; after an error of the insert the request issues no
\* email lookup and no dispatch, and table and outbox are unchanged; an email
\* is dispatched only by a request whose row was inserted.
C14_ExceptionsAre500 ==
  /\ [](\A r \in Requests :
          /\ (Done(r) /\ Threw(req[r]))
               => req[r].response = [status |-> 500,
                                     statusText |-> "Error sending message"]
          /\ (req[r].countResult # << >> /\ req[r].countResult[1].error)
               => (Done(r) /\ req[r].messageResult = << >>
                           /\ ~Issued(req[r], {"insert"}))
          /\ (req[r].messageResult # << >> /\ req[r].messageResult[1].error)
               => (Done(r) /\ req[r].emailResult = << >>
                           /\ req[r].sendResult = << >>
                           /\ ~Issued(req[r], EmailRpcs \cup {"sendEmail"}))
          /\ Issued(req[r], {"sendEmail"}) => Inserted(req[r]))
  /\ [](Len(outbox) <= Len(messages) - InitialSent)
  /\ [][\A r \in Requests :
          (Finishes(r) /\ Threw(req'[r]))
          => (messages' = messages /\ outbox' = outbox)]_vars

C14_Witness ==
  \E r \in Requests :
    /\ Done(r)
    /\ req[r].messageResult # << >>
    /\ req[r].messageResult[1].error
    /\ req[r].response = ErrorResponse
    /\ req[r].log = <<"formData", "getUser", "profiles", "profiles", "count",
                      "tenant_settings", "insert">>
    /\ outbox = << >>

\* ------------------------------------------------ claims: the 24-hour window
\* The sender's rows with created_at in (t - 24h, t].
InWindow(rows, from, t) ==
  Cardinality({ i \in 1..Len(rows) :
                  /\ rows[i].sender_id = from
                  /\ rows[i].created_at > t - DayMs
                  /\ rows[i].created_at <= t })
\* Every created_at is a multiple of the tick, so the windows that end at a
\* multiple of the tick are all the windows there are.
Instants == { k * TickMs : k \in 0..MaxTicks }
SenderIds == { p.id : p \in Profiles }

\* C18: with the requests of a sender handled one at a time and created_at
\* taken from the clock of the check, every sender has at most 20 rows in every
\* window (t - 24h, t]; rows with created_at at now - 24h or earlier are not
\* counted, so a request whose sender has fewer than 20 rows strictly later
\* than now - 24h passes the check however many older rows there are.
C18_WindowInvariant ==
  /\ [](\A from \in SenderIds : \A t \in Instants :
          InWindow(messages, from, t) <= 20)
  /\ [][\A r \in Requests :
          ( /\ req[r].pc = "count"
            /\ req'[r] # req[r]
            /\ ~req'[r].countResult[1].error
            /\ InWindow(messages, req[r].userProfile[1].id, clock) < 20 )
          => /\ req'[r].pc # "done"
             /\ req'[r].countResult[1].count
                  = InWindow(messages, req[r].userProfile[1].id, clock)]_vars

\* A sender with 20 rows exactly 24 hours old sends again.
C18_Witness ==
  \E r \in Requests :
    /\ Done(r)
    /\ req[r].response.status = 201
    /\ req[r].yesterday = clock - DayMs
    /\ req[r].countResult[1].count = 0
    /\ Cardinality({ i \in 1..Len(messages) :
                       /\ messages[i].sender_id = req[r].userProfile[1].id
                       /\ messages[i].created_at = req[r].yesterday }) >= 20

\* ------------------------------------------------- claims: research update form
\* Vocabulary: call i of the form settles in this step as given.
Settles(i, op, status) ==
  /\ i \in 1..Len(calls)
  /\ calls[i].op = op
  /\ calls[i].status = "pending"
  /\ calls'[i].status = status
\* A submit that is not ignored: it issues a new upsertUpdate call, sets the
\* save-in-progress flag and clears the error shown.
IssuesUpsert ==
  /\ Len(calls') = Len(calls) + 1
  /\ calls'[Len(calls')].op = "upsertUpdate"
  /\ calls'[Len(calls')].status = "pending"
  /\ ui'.isSaving
  /\ ui'.saveErrorMessage = Null
RetryDraft == SubmitDraft /\ IssuesUpsert
RetryPublish == SubmitPublish /\ IssuesUpsert

\* C15: the step in which an upsertUpdate call fails stores the error message,
\* resets isSaving and neither fires the celebration nor schedules or performs
\* a navigation; an error is shown only while isSaving is reset; and once the
\* form has rendered that state, a draft submit, and a publish submit as well
\* when react-final-form is not submitting, issues a new upsertUpdate call
\* and clears the error.
C15_FailedSubmitCanRetry ==
  /\ [][\A i \in 1..MaxCalls :
          Settles(i, "upsertUpdate", "rejected")
          => /\ ui'.saveErrorMessage = "save failed"
             /\ ~ui'.isSaving
             /\ browser' = browser]_vars
  /\ [](ui.saveErrorMessage # Null => ~ui.isSaving)
  /\ []((OnScreen /\ closure = ui /\ ui.saveErrorMessage # Null
           /\ Len(calls) < MaxCalls)
        => /\ ENABLED RetryDraft
           /\ (~finalForm.submitting => ENABLED RetryPublish))

\* A failed submit followed by a second one that is in flight.
C15_Witness ==
  /\ Len(calls) = 2
  /\ calls[1].op = "upsertUpdate" /\ calls[1].status = "rejected"
  /\ calls[2].op = "upsertUpdate" /\ calls[2].status = "pending"
  /\ ui.isSaving
  /\ ui.saveErrorMessage = Null
  /\ browser = InitialBrowser

\* Vocabulary: the upsertUpdate calls that resolved, and the pages their
\* results send the form to.
ResolvedUpserts ==
  { i \in 1..Len(calls) : calls[i].op = "upsertUpdate" /\ calls[i].status = "resolved" }
UpdatePages ==
  { NavigateUrl(props.research.slug, calls[i].result[1].researchUpdate.id) :
      i \in { k \in ResolvedUpserts : calls[k].result # << >> } }
ParentPage == "/research/" \o props.research.slug

\* C16: the step in which an upsertUpdate call succeeds fires the celebration
\* exactly when the submit was not a draft and navigates nowhere yet; when the
\* service returned an update it schedules the navigation to the parent
\* research page anchored to that update's id. A navigation scheduled or made
\* to an update's anchor is always one of a call that resolved with that
\* update, so none precedes the completion of the call and none follows a
\* failed submit; and a scheduled navigation is eventually made, unless the
\* page is left by another navigation first.
C16_SuccessNavigates ==
  /\ [][\A i \in 1..MaxCalls :
          Settles(i, "upsertUpdate", "resolved")
          => /\ browser'.confetti
                  = browser.confetti + (IF calls[i].isDraft THEN 0 ELSE 1)
             /\ browser'.location = browser.location
             /\ browser'.timers
                  = IF calls'[i].result = << >>
                      THEN browser.timers
                      ELSE Append(browser.timers,
                             NavigateUrl(props.research.slug,
                                         calls'[i].result[1].researchUpdate.id))]_vars
  /\ [](/\ \A k \in 1..Len(browser.timers) : browser.timers[k] \in UpdatePages
        /\ browser.location \in {Null, ParentPage} \cup UpdatePages
        /\ browser.confetti
             = Cardinality({ i \in ResolvedUpserts : ~calls[i].isDraft }))
  /\ [][browser'.location \notin {browser.location, ParentPage}
          => /\ browser.timers # << >>
             /\ browser'.location = Head(browser.timers)]_vars
  /\ ((browser.timers # << >>) ~> ~OnScreen)

\* A draft was saved: no celebration, and the form has navigated to the anchor
\* of the update the service returned.
C16_Witness ==
  /\ Len(calls) = 1
  /\ calls[1].op = "upsertUpdate"
  /\ calls[1].isDraft
  /\ calls[1].status = "resolved"
  /\ calls[1].result = <<[researchUpdate |-> [id |-> UpdateId(2)]]>>
  /\ browser.confetti = 0
  /\ browser.location = NavigateUrl(props.research.slug, UpdateId(2))

\* Vocabulary: this step issues a deleteUpdate call.
IssuesDelete ==
  /\ Len(calls') = Len(calls) + 1
  /\ calls'[Len(calls')].op = "deleteUpdate"
DeleteCalls(status) ==
  { i \in 1..Len(calls) : calls[i].op = "deleteUpdate" /\ calls[i].status = status }
ConfirmDelete == HandleDelete /\ IssuesDelete

\* C17: with an update to delete, confirming in the modal issues
\* deleteUpdate(research id, update id) and closes the modal, and that step
\* navigates nowhere; the page is replaced by the parent research page only
\* in the step in which a deleteUpdate call resolves, never when it is
\* rejected. Without an update to delete (create mode) no deleteUpdate call is
\* ever issued and the parent page is never loaded.
C17_DeleteThenNavigate ==
  /\ []((OnScreen /\ closure.showDeleteModal /\ props.researchUpdate # << >>
           /\ Len(calls) < MaxCalls)
        => ENABLED ConfirmDelete)
  /\ [][IssuesDelete
          => /\ props.researchUpdate # << >>
             /\ calls'[Len(calls')].researchId = props.research.id
             /\ calls'[Len(calls')].id = props.researchUpdate[1].id
             /\ calls'[Len(calls')].status = "pending"
             /\ ~ui'.showDeleteModal
             /\ browser' = browser]_vars
  /\ [][(browser'.location = ParentPage /\ browser.location # ParentPage)
          => \E i \in 1..MaxCalls : Settles(i, "deleteUpdate", "resolved")]_vars
  /\ [][\A i \in 1..MaxCalls :
          Settles(i, "deleteUpdate", "rejected") => browser' = browser]_vars
  /\ [](browser.location = ParentPage => DeleteCalls("resolved") # {})
  /\ [](props.researchUpdate = << >>
          => /\ \A i \in 1..Len(calls) : calls[i].op # "deleteUpdate"
             /\ browser.location # ParentPage)

\* The update was deleted and the parent page loaded.
C17_Witness ==
  /\ props.researchUpdate # << >>
  /\ DeleteCalls("resolved") # {}
  /\ \A i \in DeleteCalls("resolved") :
       /\ calls[i].researchId = props.research.id
       /\ calls[i].id = props.researchUpdate[1].id
  /\ ~ui.showDeleteModal
  /\ browser.location = ParentPage

\* C19 as stated: isSaving is reset only when an upsertUpdate call fails; once
\* an upsertUpdate call has succeeded isSaving stays true, no later submit
\* issues another upsertUpdate call, and at most one upsertUpdate call of the
\* mounted form ever succeeds, whatever the service returned.
C19_SingleSuccess ==
  /\ [][(ui.isSaving /\ ~ui'.isSaving)
          => \E i \in 1..MaxCalls : Settles(i, "upsertUpdate", "rejected")]_vars
  /\ [](ResolvedUpserts # {} => ui.isSaving)
  /\ [][ResolvedUpserts # {} => ~IssuesUpsert]_vars
  /\ [](Cardinality(ResolvedUpserts) <= 1)

\* C20: intentionalNavigation is never cleared once set, and it is set by
\* every submit that issues a call; every render made with the flag set, and
\* every render the current state would produce, reports hasChanges FALSE,
\* also after a failed submit that leaves the form dirty and unsaved.
C20_WarningSuppressed ==
  /\ [][ui.intentionalNavigation => ui'.intentionalNavigation]_vars
  /\ [][IssuesUpsert => ui'.intentionalNavigation]_vars
  /\ []((\E i \in 1..Len(calls) : calls[i].op = "upsertUpdate")
          => ui.intentionalNavigation)
  /\ [](closure.intentionalNavigation => ~rendered.hasChanges)
  /\ [](ui.intentionalNavigation
          => ~RenderOutput(props, ui, finalForm).hasChanges)

\* A draft submit failed; the form is dirty, nothing was saved, the failure is
\* rendered, and no warning would be shown.
C20_Witness ==
  /\ OnScreen
  /\ calls # << >>
  /\ \A i \in 1..Len(calls) :
       calls[i].op = "upsertUpdate" /\ calls[i].status = "rejected"
  /\ ui.saveErrorMessage # Null
  /\ finalForm.dirty
  /\ ~finalForm.submitSucceeded
  /\ closure = ui
  /\ rendered = RenderOutput(props, ui, finalForm)
  /\ ~rendered.hasChanges

====
